---- MODULE Spec2Model ----
(***************************************************************************)
(* Model of getcitatations.py: the DOI loader, the three provider clients, *)
(* the CSV checkpoint store and the analyze_citations run loop.            *)
(*                                                                         *)
(* Strings that the loader cleans are sequences of one-character strings.  *)
(* DOIs handled by the run loop are opaque names.  The absent value None,  *)
(* the NaN that pandas reads for an empty cell and the empty CSV cell are  *)
(* negative integers, so that they never collide with a citation count.    *)
(***************************************************************************)
EXTENDS Integers, Sequences, FiniteSets, TLC

\* ---------------------------------------------------------------- bounds
MaxTokens == 3      \* tokens per raw line of the input file
MaxLines == 1       \* lines (or cells) of the input file
MaxCount == 2       \* largest citation count a provider reports
MaxLen == 2         \* length of doi_list
MaxResume == 1      \* length of doi_list when the analysis is launched again
MaxInterval == 2    \* largest checkpoint_interval
MaxClock == 1       \* last second of the wall clock
MaxLaunches == 2    \* launches of analyze_citations by the operator

\* ------------------------------------------------------------- sentinels
None == -1          \* Python None, the absent value of a provider client
NaN == -2           \* what pandas.read_csv yields for an empty cell
EmptyCell == -3     \* what DataFrame.to_csv writes for None and for NaN

\* ------------------------------------------------------- string helpers
DoiPrefix == <<"d", "o", "i", ":">>
UrlPrefix == <<"h", "t", "t", "p", "s", ":", "/", "/",
               "d", "o", "i", ".", "o", "r", "g", "/">>
Space == " "

Drop(s, n) == SubSeq(s, n + 1, Len(s))

\* str.startswith(prefix)
StartsWith(s, prefix) ==
    /\ Len(s) >= Len(prefix)
    /\ SubSeq(s, 1, Len(prefix)) = prefix

RECURSIVE LStrip(_)
LStrip(s) == IF s # <<>> /\ Head(s) = Space THEN LStrip(Tail(s)) ELSE s

RECURSIVE RStrip(_)
RStrip(s) ==
    IF s # <<>> /\ s[Len(s)] = Space THEN RStrip(SubSeq(s, 1, Len(s) - 1)) ELSE s

\* str.strip()
Strip(s) == RStrip(LStrip(s))

\* str.replace(old, ''): every non-overlapping occurrence, left to right
RECURSIVE ReplaceAll(_, _)
ReplaceAll(s, old) ==
    IF Len(s) < Len(old) THEN s
    ELSE IF StartsWith(s, old) THEN ReplaceAll(Drop(s, Len(old)), old)
    ELSE <<Head(s)>> \o ReplaceAll(Tail(s), old)

\* lines 43-47: the cleaning of one raw DOI
CleanDoi(raw) ==
    LET doi == Strip(raw) IN
    IF StartsWith(doi, UrlPrefix) THEN ReplaceAll(doi, UrlPrefix)
    ELSE IF StartsWith(doi, DoiPrefix) THEN ReplaceAll(doi, DoiPrefix)
    ELSE doi

NonEmpty(s) == s # <<>>

\* lines 28-38: the raw values read from the file.  A text file gives its
\* stripped non-blank lines; a csv file gives the cells of the DOI column,
\* without the empty ones (dropna).
ReadDois(is_csv, lines) ==
    IF is_csv THEN SelectSeq(lines, NonEmpty)
    ELSE LET stripped == [k \in 1..Len(lines) |-> Strip(lines[k])]
         IN SelectSeq(stripped, NonEmpty)

\* lines 25-55
load_dois_from_file(is_csv, lines, readable) ==
    IF ~readable THEN <<>>
    ELSE LET dois == ReadDois(is_csv, lines)
             cleaned == [k \in 1..Len(dois) |-> CleanDoi(dois[k])]
         IN SelectSeq(cleaned, NonEmpty)

\* -------------------------------------------------- inputs of the loader
Tokens == {DoiPrefix, UrlPrefix, <<Space>>, <<"x">>, <<"d", "o", "i">>, <<"/">>}

RECURSIVE RawOfLen(_)
RawOfLen(n) ==
    IF n = 0 THEN {<<>>}
    ELSE {t \o r : t \in Tokens, r \in RawOfLen(n - 1)}

RawStrings == UNION {RawOfLen(n) : n \in 0..MaxTokens}

RECURSIVE SeqsOfLen(_, _)
SeqsOfLen(S, n) ==
    IF n = 0 THEN {<<>>}
    ELSE {<<x>> \o r : x \in S, r \in SeqsOfLen(S, n - 1)}

SeqsUpTo(S, n) == UNION {SeqsOfLen(S, k) : k \in 0..n}

\* ------------------------------------------------------ provider clients
EmptyDict == [k \in {} |-> 0]

\* dict.get(key, default)
Get(d, key, default) == IF key \in DOMAIN d THEN d[key] ELSE default

\* What one requests.get can produce: an exception (timeout, connection
\* error) or an HTTP response with a status and a body that is JSON or not.
Exceptions == {[kind |-> k, status |-> 0, json |-> FALSE, data |-> EmptyDict] :
                  k \in {"timeout", "connection"}}

JsonBodies ==
    {EmptyDict, "message" :> EmptyDict}
    \cup {"message" :> ("is-referenced-by-count" :> n) : n \in 0..MaxCount}
    \cup {"cited_by_count" :> n : n \in 0..MaxCount}
    \cup {"times_cited" :> n : n \in 0..MaxCount}

\* The body of a response other than 200 is never read by the clients.
HttpResponses ==
    {[kind |-> "http", status |-> 200, json |-> TRUE, data |-> d] : d \in JsonBodies}
    \cup {[kind |-> "http", status |-> 200, json |-> FALSE, data |-> EmptyDict]}
    \cup {[kind |-> "http", status |-> st, json |-> j, data |-> EmptyDict] :
             st \in {204, 404, 500}, j \in BOOLEAN}

Responses == Exceptions \cup HttpResponses

\* The two outcomes that the run loop is explored with: a call that fails
\* and a call that finds one citation.  SpecRecord explores all Responses.
FoundOnce ==
    ("message" :> ("is-referenced-by-count" :> 1))
    @@ ("cited_by_count" :> 1) @@ ("times_cited" :> 1)

RunResponses ==
    {[kind |-> "timeout", status |-> 0, json |-> FALSE, data |-> EmptyDict],
     [kind |-> "http", status |-> 200, json |-> TRUE, data |-> FoundOnce]}

\* lines 76-98
get_crossref_citations(response) ==
    IF response.kind # "http" THEN None
    ELSE IF response.status = 200 THEN
        IF ~response.json THEN None
        ELSE IF "message" \in DOMAIN response.data
             THEN Get(response.data["message"], "is-referenced-by-count", 0)
             ELSE 0
    ELSE IF response.status = 404 THEN 0
    ELSE None

get_openalex_citations_zero(response) ==
    IF response.kind # "http" THEN None
    ELSE IF response.status = 200 THEN
        IF ~response.json THEN None
        ELSE Get(response.data, "cited_by_count", 0)
    ELSE 0

\* lines 100-117
get_openalex_citations(response) ==
    IF response.kind # "http" THEN None
    ELSE IF response.status = 200 THEN
        IF ~response.json THEN None
        ELSE Get(response.data, "cited_by_count", 0)
    ELSE IF response.status = 404 THEN 0
    ELSE None

\* lines 57-74
get_dimensions_citations(response) ==
    IF response.kind # "http" THEN None
    ELSE IF response.status = 200 THEN
        IF ~response.json THEN None
        ELSE Get(response.data, "times_cited", 0)
    ELSE IF response.status = 404 THEN 0
    ELSE None

\* ------------------------------------------------------------ the record
\* bool(v) of a count: None and 0 are falsy
Truthy(v) == v # None /\ v # 0

Max(S) == CHOOSE m \in S : \A x \in S : x <= m

max_citations_min(crossref, openalex, dimensions) ==
    LET counts == <<crossref, openalex, dimensions>>
        kept == {counts[k] : k \in {j \in 1..3 : Truthy(counts[j])}}
    IN IF kept # {} THEN CHOOSE m \in kept : \A x \in kept : m <= x ELSE 0

\* line 191
max_citations(crossref, openalex, dimensions) ==
    LET counts == <<crossref, openalex, dimensions>>
        kept == {counts[k] : k \in {j \in 1..3 : Truthy(counts[j])}}
    IN IF kept # {} THEN Max(kept) ELSE 0

\* lines 186-193
Result(doi, crossref, openalex, dimensions, now) ==
    [doi |-> doi,
     crossref_citations |-> crossref,
     openalex_citations |-> openalex,
     dimensions_citations |-> dimensions,
     max_citations |-> max_citations(crossref, openalex, dimensions),
     processed_at |-> now]

\* ------------------------------------------------------ checkpoint store
CountColumns == {"crossref_citations", "openalex_citations", "dimensions_citations"}

\* DataFrame.to_csv: None and NaN are written as an empty cell
ToCsvRow(rec) ==
    [f \in DOMAIN rec |->
        IF f \in CountColumns /\ rec[f] \in {None, NaN} THEN EmptyCell ELSE rec[f]]

ToCsv(records) == [k \in 1..Len(records) |-> ToCsvRow(records[k])]

\* pandas.read_csv + to_dict('records'): an empty cell is read as NaN
FromCsvRow(row) ==
    [f \in DOMAIN row |->
        IF f \in CountColumns /\ row[f] = EmptyCell THEN NaN ELSE row[f]]

FromCsv(rows) == [k \in 1..Len(rows) |-> FromCsvRow(rows[k])]

Missing == [exists |-> FALSE, rows |-> <<>>]
File(rows) == [exists |-> TRUE, rows |-> rows]

\* The outcomes of one save_checkpoint: the file is overwritten; or the
\* write fails before the file is opened (file untouched); or it fails after
\* the file was truncated and some of the rows were written.
SaveOutcomes(records) ==
    {[ok |-> TRUE, written |-> Len(records)], [ok |-> FALSE, written |-> -1]}
    \cup {[ok |-> FALSE, written |-> k] : k \in 0..(Len(records) - 1)}

save_checkpoint_stale(records, old, outcome) ==
    IF outcome.written < 0 THEN old
    ELSE File(SubSeq(ToCsv(records), 1, outcome.written - 1))

\* lines 119-126: the file after the call
save_checkpoint(records, old, outcome) ==
    IF outcome.written < 0 THEN old
    ELSE File(SubSeq(ToCsv(records), 1, outcome.written))

\* lines 128-139
load_checkpoint(file, readable) ==
    IF file.exists /\ readable THEN FromCsv(file.rows) ELSE <<>>

\* ================================================================ state
VARIABLES
    source,          \* the input file: [is_csv, readable, lines]
    cleaned_dois,    \* what load_dois_from_file returned
    pc,              \* where the program is
    clock,           \* wall clock, in seconds
    disk,            \* checkpoint files, by the timestamp in their name
    launches,        \* launches of analyze_citations so far
    prev,            \* outcome of the previous launch
    doi_list, delay, checkpoint_interval, resume_from_checkpoint,
    checkpoint_file, \* timestamp in the name of this run's checkpoint
    results, remaining_dois, processed_count, i,
    crossref_count, openalex_count,
    calls,           \* provider calls of this run, in order
    loads,           \* what load_checkpoint of this run found
    saves,           \* what the latest save_checkpoint of this run logged
    returned         \* the ResultSet returned by analyze_citations

params == <<doi_list, delay, checkpoint_interval, resume_from_checkpoint>>
locals == <<checkpoint_file, results, remaining_dois, processed_count, i,
            crossref_count, openalex_count>>
loader == <<source, cleaned_dois>>
vars == <<source, cleaned_dois, pc, clock, disk, launches, prev, doi_list, delay,
          checkpoint_interval, resume_from_checkpoint, checkpoint_file, results,
          remaining_dois, processed_count, i, crossref_count, openalex_count,
          calls, loads, saves, returned>>

Dois == {"a", "b"}
Delays == {-1, 2}
Timestamps == 0..MaxClock
Running == {"start", "crossref", "openalex", "dimensions", "periodic", "final"}

NoPrev == [completed |-> FALSE, saved |-> FALSE, calls |-> 0, returned |-> <<>>]
NoSource == [is_csv |-> FALSE, readable |-> FALSE, lines |-> <<>>]

\* A checkpoint that an earlier launch in the same second left behind.
EarlierCheckpoint == File(ToCsv(<<Result("a", 1, None, 0, 0)>>))

\* The state at the call of analyze_citations, line 141.
AtCall(lists, delays, intervals, resumes, files) ==
    /\ clock = 0
    /\ \E f \in files : disk = [t \in Timestamps |-> IF t = 0 THEN f ELSE Missing]
    /\ launches = 1
    /\ prev = NoPrev
    /\ doi_list \in lists
    /\ delay \in delays
    /\ checkpoint_interval \in intervals
    /\ resume_from_checkpoint \in resumes
    /\ checkpoint_file = 0
    /\ results = <<>>
    /\ remaining_dois = <<>>
    /\ processed_count = 0
    /\ i = 0
    /\ crossref_count = None
    /\ openalex_count = None
    /\ calls = <<>>
    /\ loads = "none"
    /\ saves = "none"
    /\ returned = <<>>

Init ==
    /\ source = NoSource
    /\ cleaned_dois = <<>>
    /\ pc = "start"
    /\ AtCall(SeqsUpTo(Dois, MaxLen), Delays, 0..MaxInterval, BOOLEAN,
              {Missing, EarlierCheckpoint})

\* ============================================================= run loop
\* lines 152-168
Start ==
    /\ pc = "start"
    /\ checkpoint_file' = clock
    /\ IF resume_from_checkpoint
       THEN \E readable \in BOOLEAN :
              LET loaded == load_checkpoint(disk[clock], readable)
                  processed_dois == {loaded[k].doi : k \in 1..Len(loaded)}
                  NotProcessed(doi) == doi \notin processed_dois
              IN /\ results' = loaded
                 /\ remaining_dois' = SelectSeq(doi_list, NotProcessed)
                 /\ loads' = IF ~disk[clock].exists THEN "absent"
                             ELSE IF readable THEN "loaded" ELSE "error"
       ELSE /\ results' = <<>>
            /\ remaining_dois' = doi_list
            /\ loads' = "none"
    /\ processed_count' = Len(results')
    /\ i' = IF remaining_dois' = <<>> THEN 0 ELSE 1
    /\ pc' = IF remaining_dois' = <<>> THEN "final" ELSE "crossref"
    /\ UNCHANGED <<loader, clock, disk, launches, prev, params, crossref_count,
                   openalex_count, calls, saves, returned>>

Call(provider, doi, response, result) ==
    [provider |-> provider, doi |-> doi, response |-> response, result |-> result]

CrossRef_retry(R) ==
    /\ pc = "crossref"
    /\ \E response \in R :
         LET count == get_crossref_citations(response) IN
         /\ crossref_count' = count
         /\ calls' = Append(calls, Call("crossref", remaining_dois[i], response, count))
         /\ pc' = IF count = None /\ Len(calls) % 3 = 0 THEN "crossref" ELSE "openalex"
    /\ UNCHANGED <<loader, clock, disk, launches, prev, params, checkpoint_file,
                   results, remaining_dois, processed_count, i, openalex_count,
                   loads, saves, returned>>

\* lines 175-176
CrossRef(R) ==
    /\ pc = "crossref"
    /\ \E response \in R :
         LET count == get_crossref_citations(response) IN
         /\ crossref_count' = count
         /\ calls' = Append(calls, Call("crossref", remaining_dois[i], response, count))
    /\ pc' = "openalex"
    /\ UNCHANGED <<loader, clock, disk, launches, prev, params, checkpoint_file,
                   results, remaining_dois, processed_count, i, openalex_count,
                   loads, saves, returned>>

\* lines 179-180
OpenAlex(R) ==
    /\ pc = "openalex"
    /\ \E response \in R :
         LET count == get_openalex_citations(response) IN
         /\ openalex_count' = count
         /\ calls' = Append(calls, Call("openalex", remaining_dois[i], response, count))
    /\ pc' = "dimensions"
    /\ UNCHANGED <<loader, clock, disk, launches, prev, params, checkpoint_file,
                   results, remaining_dois, processed_count, i, crossref_count,
                   loads, saves, returned>>

\* lines 183-194.  The counts of the finished DOI are dead after the append
\* (the next iteration assigns them before it reads them): they are reset.
Dimensions(R) ==
    /\ pc = "dimensions"
    /\ \E response \in R :
         LET doi == remaining_dois[i]
             dimensions_count == get_dimensions_citations(response)
         IN /\ calls' = Append(calls, Call("dimensions", doi, response, dimensions_count))
            /\ results' = Append(results, Result(doi, crossref_count, openalex_count,
                                                 dimensions_count, clock))
    /\ crossref_count' = None
    /\ openalex_count' = None
    /\ pc' = "periodic"
    /\ UNCHANGED <<loader, clock, disk, launches, prev, params, checkpoint_file,
                   remaining_dois, processed_count, i, loads, saves, returned>>

\* One call of save_checkpoint(results, checkpoint_file), with its outcome.
Save ==
    \E outcome \in SaveOutcomes(results) :
        /\ disk' = [disk EXCEPT ![checkpoint_file] = save_checkpoint(results, @, outcome)]
        /\ saves' = IF outcome.ok THEN "ok" ELSE "failed"

Due_from_zero(n, interval) == (n - 1) % interval = 0

\* i % checkpoint_interval == 0, line 197
Due(n, interval) == n % interval = 0

\* lines 196-202.  i % 0 raises ZeroDivisionError and time.sleep of a
\* negative delay raises ValueError; neither is caught in analyze_citations.
Periodic ==
    /\ pc = "periodic"
    /\ IF checkpoint_interval = 0
       THEN /\ pc' = "failed"
            /\ UNCHANGED <<disk, saves, i>>
       ELSE /\ IF Due(i, checkpoint_interval) THEN Save ELSE UNCHANGED <<disk, saves>>
            /\ IF i < Len(remaining_dois)
               THEN IF delay < 0
                    THEN pc' = "failed" /\ i' = i
                    ELSE pc' = "crossref" /\ i' = i + 1
               ELSE pc' = "final" /\ i' = i
    /\ UNCHANGED <<loader, clock, launches, prev, params, checkpoint_file, results,
                   remaining_dois, processed_count, crossref_count, openalex_count,
                   calls, loads, returned>>

\* lines 205-207
Final ==
    /\ pc = "final"
    /\ Save
    /\ returned' = results
    /\ pc' = "returned"
    /\ UNCHANGED <<loader, clock, launches, prev, params, locals, calls, loads>>

\* KeyboardInterrupt between two statements of analyze_citations; it is
\* caught in main, lines 300-301, which saves nothing.
Interrupt ==
    /\ pc \in Running
    /\ pc' = "interrupted"
    /\ crossref_count' = None
    /\ openalex_count' = None
    /\ UNCHANGED <<loader, clock, disk, launches, prev, params, checkpoint_file,
                   results, remaining_dois, processed_count, i, calls, loads, saves, returned>>

\* KeyboardInterrupt inside save_checkpoint (it is not an Exception, so
\* line 125 does not catch it): the file is left truncated or half written.
InterruptInSave ==
    /\ \/ pc = "final"
       \/ pc = "periodic" /\ checkpoint_interval > 0 /\ Due(i, checkpoint_interval)
    /\ \E written \in 0..Len(results) :
         disk' = [disk EXCEPT ![checkpoint_file] = File(SubSeq(ToCsv(results), 1, written))]
    /\ saves' = "interrupted"
    /\ pc' = "interrupted"
    /\ UNCHANGED <<loader, clock, launches, prev, params, locals, calls, loads,
                   returned>>

Next ==
    \/ Start
    \/ CrossRef(RunResponses)
    \/ OpenAlex(RunResponses)
    \/ Dimensions(RunResponses)
    \/ Periodic
    \/ Final
    \/ Interrupt
    \/ InterruptInSave

Spec == Init /\ [][Next]_vars

\* ====================================================== a second launch
\* The operator runs the same analysis again once the previous run is over.
\* Nothing of the previous run survives but the files.
Relaunch ==
    /\ pc \in {"returned", "interrupted", "failed"}
    /\ launches < MaxLaunches
    /\ launches' = launches + 1
    /\ prev' = [completed |-> pc = "returned", saved |-> saves = "ok",
                calls |-> Len(calls), returned |-> returned]
    /\ pc' = "start"
    /\ checkpoint_file' = 0
    /\ results' = <<>>
    /\ remaining_dois' = <<>>
    /\ processed_count' = 0
    /\ i' = 0
    /\ calls' = <<>>
    /\ loads' = "none"
    /\ saves' = "none"
    /\ returned' = <<>>
    /\ UNCHANGED <<loader, clock, disk, params, crossref_count, openalex_count>>

\* A second of wall-clock time passes.  The name of the checkpoint depends
\* on the clock at line 152 only, so the time that passes during a run is
\* folded into the time before the next launch, and processed_at is the
\* second in which the run was launched.
Tick ==
    /\ pc \notin Running
    /\ clock < MaxClock
    /\ clock' = clock + 1
    /\ UNCHANGED <<loader, pc, disk, launches, prev, params, locals, calls, loads, saves,
                   returned>>

\* main, lines 251-272: positive answers to the prompts, resume left on.
InitResume ==
    /\ source = NoSource
    /\ cleaned_dois = <<>>
    /\ pc = "start"
    /\ AtCall(SeqsUpTo(Dois, MaxResume) \ {<<>>}, {2}, 1..MaxInterval, {TRUE}, {Missing})

NextResume ==
    \/ Start
    \/ CrossRef(RunResponses)
    \/ OpenAlex(RunResponses)
    \/ Dimensions(RunResponses)
    \/ Periodic
    \/ Final
    \/ Relaunch
    \/ Tick

SpecResume == InitResume /\ [][NextResume]_vars

\* ================================== one DOI, every answer of the network
InitRecord ==
    /\ source = NoSource
    /\ cleaned_dois = <<>>
    /\ pc = "start"
    /\ AtCall({<<"a">>}, {2}, {1}, {TRUE}, {Missing})

NextRecord ==
    \/ Start
    \/ CrossRef(Responses)
    \/ OpenAlex(Responses)
    \/ Dimensions(Responses)
    \/ Periodic
    \/ Final

SpecRecord == InitRecord /\ [][NextRecord]_vars

\* =========================================================== the loader
InitLoad ==
    /\ source \in [is_csv : BOOLEAN, readable : BOOLEAN,
                   lines : SeqsUpTo(RawStrings, MaxLines)]
    /\ cleaned_dois = <<>>
    /\ pc = "load"
    /\ AtCall({<<>>}, {2}, {1}, {TRUE}, {Missing})

\* line 222: dois = load_dois_from_file(filepath)
Load ==
    /\ pc = "load"
    /\ cleaned_dois' = load_dois_from_file(source.is_csv, source.lines, source.readable)
    /\ pc' = "loaded"
    /\ UNCHANGED <<source, clock, disk, launches, prev, params, locals, calls, loads, saves,
                   returned>>

NextLoad == Load

SpecLoad == InitLoad /\ [][NextLoad]_vars

\* =============================================================== claims
Range(seq) == {seq[k] : k \in 1..Len(seq)}

\* A ResultSet without its timestamps, absent counts written alike.
ModuloTime(records) ==
    [k \in 1..Len(records) |-> [ToCsvRow(records[k]) EXCEPT !.processed_at = 0]]

\* C1: once a run over S has completed and saved its checkpoint, a second
\* launch over the same S makes no provider call and returns the same
\* ResultSet, timestamps aside.
C1_ResumeIsIdempotent ==
    (launches >= 2 /\ prev.completed /\ prev.saved /\ loads \notin {"none", "error"}) =>
        /\ calls = <<>>
        /\ pc = "returned" => ModuloTime(returned) = ModuloTime(prev.returned)

C3_IdentifiersAreUnique ==
    \A j, k \in 1..Len(results) : j # k => results[j].doi # results[k].doi

\* Removal of the one leading prefix, as the loader is specified.
RemoveLeadingPrefix(doi) ==
    IF StartsWith(doi, UrlPrefix) THEN Drop(doi, Len(UrlPrefix))
    ELSE IF StartsWith(doi, DoiPrefix) THEN Drop(doi, Len(DoiPrefix))
    ELSE doi

\* C4: for every raw identifier that starts, once trimmed, with
\* https://doi.org/ or doi:, the loader yields the trimmed string without
\* that one leading prefix and with every other character kept.
C4_StripsExactlyThePrefix ==
    (pc = "loaded" /\ source.readable) =>
        LET dois == ReadDois(source.is_csv, source.lines)
            expected == [k \in 1..Len(dois) |-> RemoveLeadingPrefix(Strip(dois[k]))]
        IN cleaned_dois = SelectSeq(expected, NonEmpty)

\* C5: every identifier that the loader returns is non-empty, has no
\* leading or trailing whitespace and starts with neither prefix.
C5_LoadedIdentifiersAreNormal ==
    \A k \in 1..Len(cleaned_dois) :
        LET doi == cleaned_dois[k] IN
        /\ doi # <<>>
        /\ Strip(doi) = doi
        /\ ~StartsWith(doi, UrlPrefix)
        /\ ~StartsWith(doi, DoiPrefix)

\* C6: the max_citations of every appended record is the maximum of the
\* counts that are present among its three, and 0 when all three are absent.
C6_MaxOfPresentCounts ==
    \A k \in 1..Len(results) :
        LET r == results[k]
            present == {r.crossref_citations, r.openalex_citations,
                        r.dimensions_citations} \ {None}
        IN r.max_citations = IF present = {} THEN 0 ELSE Max(present)

\* C6, witness: a returned record with an absent count and two different
\* positive counts, the first of them the largest.
C6_Witness ==
    /\ pc = "returned"
    /\ \E k \in 1..Len(results) :
         /\ results[k].crossref_citations = MaxCount
         /\ results[k].openalex_citations = None
         /\ results[k].dimensions_citations \in 1..(MaxCount - 1)
         /\ results[k].max_citations = MaxCount

\* The citation field of a provider in a JSON body, None when it is missing.
CitationField(provider, data) ==
    IF provider = "crossref"
    THEN IF "message" \in DOMAIN data
         THEN Get(data["message"], "is-referenced-by-count", None)
         ELSE None
    ELSE IF provider = "openalex" THEN Get(data, "cited_by_count", None)
    ELSE Get(data, "times_cited", None)

\* C7: for each provider client, a 404 yields 0; a 200 yields the citation
\* field of the provider, or 0 when the field is missing; any other status,
\* a network error, a timeout and a body that is not JSON yield None.
C7_ClientsMapResponses ==
    \A k \in 1..Len(calls) :
        LET c == calls[k]
            field == CitationField(c.provider, c.response.data)
        IN c.result =
            IF c.response.kind = "http" /\ c.response.status = 404 THEN 0
            ELSE IF c.response.kind = "http" /\ c.response.status = 200
                    /\ c.response.json
                 THEN IF field = None THEN 0 ELSE field
            ELSE None

\* C7, witness: a DOI for which CrossRef answered 404, OpenAlex answered 500
\* and Dimensions answered 200 with a positive count.
C7_Witness ==
    /\ Len(calls) = 3
    /\ calls[1].response.status = 404 /\ calls[1].result = 0
    /\ calls[2].response.status = 500 /\ calls[2].result = None
    /\ calls[3].response.status = 200 /\ calls[3].result = MaxCount

\* C8: the step that ends the i-th DOI of the run calls save_checkpoint with
\* the whole ResultSet when i is a multiple of checkpoint_interval, and the
\* run calls it once more before it returns; a call that succeeds leaves the
\* checkpoint equal to the ResultSet, so a run whose final save succeeds
\* returns what is on disk.
C8_SavesEveryNthAndAtTheEnd ==
    [][/\ (/\ pc = "periodic"
           /\ checkpoint_interval > 0
           /\ i % checkpoint_interval = 0
           /\ pc' # "interrupted")
          => /\ saves' \in {"ok", "failed"}
             /\ saves' = "ok" => disk'[checkpoint_file] = File(ToCsv(results))
       /\ (pc = "final" /\ pc' = "returned")
          => /\ saves' \in {"ok", "failed"}
             /\ returned' = results
             /\ saves' = "ok" => disk'[checkpoint_file] = File(ToCsv(returned'))
      ]_vars

\* C8, witness: a run of two DOIs with checkpoint_interval 2 that has
\* returned after a successful final save.
C8_Witness ==
    /\ pc = "returned"
    /\ saves = "ok"
    /\ checkpoint_interval = 2
    /\ Len(remaining_dois) = 2
    /\ disk[checkpoint_file] = File(ToCsv(returned))

\* C9: no failure propagates out of analyze_citations.
C9_NoFailurePropagates == pc # "failed"

ProviderOrder == <<"crossref", "openalex", "dimensions">>

\* C10: the provider calls of a run are, in order, CrossRef, OpenAlex and
\* Dimensions for the first remaining DOI, then for the second, and so on,
\* one call each and none repeated; the record of a DOI is appended with its
\* last call, before any call for the next DOI.
C10_CallsInOrderOncePerProvider ==
    /\ \A k \in 1..Len(calls) :
         /\ calls[k].provider = ProviderOrder[((k - 1) % 3) + 1]
         /\ ((k - 1) \div 3) + 1 <= Len(remaining_dois)
         /\ calls[k].doi = remaining_dois[((k - 1) \div 3) + 1]
    /\ Len(results) - processed_count = Len(calls) \div 3
    /\ pc = "returned" => Len(calls) = 3 * Len(remaining_dois)

\* C10, witness: a returned run over two different DOIs whose first call
\* failed.
C10_Witness ==
    /\ pc = "returned"
    /\ Len(calls) = 6
    /\ calls[1].result = None
    /\ calls[1].doi # calls[4].doi

====
